---- MODULE Spec2Model ----
(***************************************************************************)
(* Model of app2.py: a Streamlit script that streams text from Gemini,     *)
(* extracts a JSON array of multiple-choice problems from it with a        *)
(* regular expression, builds a table and offers it as an Excel download.  *)
(*                                                                         *)
(* A text is a sequence of lexical tokens (strings):                       *)
(*   "[" "]" "{" "}" ","   JSON punctuation                                *)
(*   " "                   a whitespace character                          *)
(*   "x"                   any other character (prose)                     *)
(*   "q1" "q2" "c1" "c2" "o0" "o2" "o7"   one well-formed JSON member      *)
(*                         ("question": ..., "correct_answer": ...,        *)
(*                          "options": [...]) of an object                 *)
(* A Streamlit session is one browser tab; every session runs the script   *)
(* in its own thread of the one server process, so os.environ and the      *)
(* working directory are shared by all sessions.                           *)
(***************************************************************************)
EXTENDS Integers, Sequences, FiniteSets, TLC

\* ------------------------------------------------------------------ bounds
\* chunks the transport delivers in one streamed response
MaxChunks == 3
\* the same, in the two-session specification
ConcMaxChunks == 1

\* ------------------------------------------------------------ program data
Sessions == {1, 2}

\* number_input "Сонголтын тоо": min_value, max_value, value
MinOptions == 2
MaxOptions == 6
DefaultOptions == 4

\* the columns of one df_data row, in dict order
ColumnNames ==
    <<"Question", "Option A", "Option B", "Option C", "Option D", "Option E",
      "Option F", "Correct Answer">>

\* the chunks yielded by the two guards and by the except clause
GuardLibMsg == <<"!lib">>
GuardKeyMsg == <<"!key">>
FaultMsg == <<"!err">>

\* ------------------------------------------------------------------- texts
RECURSIVE Join(_)
\* "".join(collected)
Join(ss) == IF ss = <<>> THEN <<>> ELSE Head(ss) \o Join(Tail(ss))

\* a streamed chunk: has_text is FALSE when the chunk carries no text attribute
Chunk(t) == [has_text |-> TRUE, text |-> t]
NoTextChunk == [has_text |-> FALSE, text |-> <<>>]

\* getattr(chunk, "text", None) is truthy
TruthyText(c) == c.has_text /\ c.text # <<>>

CollectMut(collected, c) == <<c.text>> \o collected
\* collected.append(chunk.text)
Collect(collected, c) == Append(collected, c.text)

\* str.strip() == "" on the problem text
Blank(p) == p \in {"", " "}

\* os.getenv("GOOGLE_API_KEY") or api_key
ResolveKey(env, field) == IF env # "" THEN env ELSE field

\* -------------------------------------------------------------- JSON model
MemberTokens == {"q1", "q2", "c1", "c2", "o0", "o2", "o7"}

MemberKey(tok) ==
    CASE tok \in {"q1", "q2"} -> "question"
      [] tok \in {"c1", "c2"} -> "correct_answer"
      [] OTHER -> "options"

OptionsOf(tok) ==
    CASE tok = "o0" -> <<>>
      [] tok = "o2" -> <<"A", "B">>
      [] OTHER -> <<"A", "B", "C", "D", "E", "F", "G">>

StringOf(tok) ==
    CASE tok = "q1" -> "Q1"
      [] tok = "q2" -> "Q2"
      [] tok = "c1" -> "A"
      [] OTHER -> "B"

\* a parsed JSON value: an object (a dict, has = its keys) or an array
EmptyDict ==
    [t |-> "obj", has |-> {}, question |-> "", options |-> <<>>,
     correct_answer |-> "", items |-> <<>>]

ArrayVal(items) == [EmptyDict EXCEPT !.t = "arr", !.items = items]

\* dict[key] = value of the member token (a later duplicate key wins)
WithMember(d, tok) ==
    LET k == MemberKey(tok) IN
    CASE k = "question" ->
           [d EXCEPT !.has = @ \cup {k}, !.question = StringOf(tok)]
      [] k = "correct_answer" ->
           [d EXCEPT !.has = @ \cup {k}, !.correct_answer = StringOf(tok)]
      [] OTHER -> [d EXCEPT !.has = @ \cup {k}, !.options = OptionsOf(tok)]

At(s, i) == IF i >= 1 /\ i <= Len(s) THEN s[i] ELSE "EOF"

RECURSIVE SkipWs(_, _)
\* the first position from i on that holds no whitespace
SkipWs(s, i) == IF At(s, i) = " " THEN SkipWs(s, i + 1) ELSE i

Failed == [ok |-> FALSE, val |-> EmptyDict, next |-> 0]

RECURSIVE ParseMembers(_, _, _)
\* the members of an object from position i (a member is expected there)
ParseMembers(s, i, d) ==
    IF At(s, i) \notin MemberTokens THEN Failed
    ELSE LET d2 == WithMember(d, s[i])
             k == SkipWs(s, i + 1)
         IN  CASE At(s, k) = "," -> ParseMembers(s, SkipWs(s, k + 1), d2)
               [] At(s, k) = "}" -> [ok |-> TRUE, val |-> d2, next |-> k + 1]
               [] OTHER -> Failed

\* an object whose "{" is at position i
ParseObject(s, i) ==
    LET j == SkipWs(s, i + 1) IN
    IF At(s, j) = "}" THEN [ok |-> TRUE, val |-> EmptyDict, next |-> j + 1]
    ELSE ParseMembers(s, j, EmptyDict)

RECURSIVE ParseValue(_, _)
RECURSIVE ParseItems(_, _, _)
\* the items of an array from position i (an item is expected there)
ParseItems(s, i, items) ==
    LET r == ParseValue(s, i) IN
    IF ~r.ok THEN Failed
    ELSE LET items2 == Append(items, r.val)
             k == SkipWs(s, r.next)
         IN  CASE At(s, k) = "," -> ParseItems(s, SkipWs(s, k + 1), items2)
               [] At(s, k) = "]" ->
                    [ok |-> TRUE, val |-> ArrayVal(items2), next |-> k + 1]
               [] OTHER -> Failed

\* a JSON value that starts at position i
ParseValue(s, i) ==
    CASE At(s, i) = "{" -> ParseObject(s, i)
      [] At(s, i) = "[" ->
           LET j == SkipWs(s, i + 1) IN
           IF At(s, j) = "]"
           THEN [ok |-> TRUE, val |-> ArrayVal(<<>>), next |-> j + 1]
           ELSE ParseItems(s, j, <<>>)
      [] OTHER -> Failed

\* json.loads(json_str): ok is FALSE when it raises JSONDecodeError
json_loads(s) ==
    LET r == ParseValue(s, SkipWs(s, 1)) IN
    IF r.ok /\ SkipWs(s, r.next) = Len(s) + 1 THEN r ELSE Failed

\* ------------------------------------------------------------- regex model
\* the ends e of a match of \{.*\}\s*\] whose "{" is at position j
MatchEnds(s, j) ==
    {e \in (j + 2)..Len(s) :
        /\ s[e] = "]"
        /\ \E p \in (j + 1)..(e - 1) : s[p] = "}" /\ SkipWs(s, p + 1) = e}

\* the start positions at which \[\s*\{.*\}\s*\] matches
MatchStarts(s) ==
    {i \in 1..Len(s) :
        /\ s[i] = "["
        /\ At(s, SkipWs(s, i + 1)) = "{"
        /\ MatchEnds(s, SkipWs(s, i + 1)) # {}}

SetMin(S) == CHOOSE m \in S : \A n \in S : m <= n
SetMax(S) == CHOOSE m \in S : \A n \in S : m >= n

\* re.search(r'\[\s*\{.*\}\s*\]', text, re.DOTALL): leftmost start, greedy .*
re_search(s) ==
    IF MatchStarts(s) = {} THEN [found |-> FALSE, group |-> <<>>]
    ELSE LET i == SetMin(MatchStarts(s))
         IN  [found |-> TRUE,
              group |-> SubSeq(s, i, SetMax(MatchEnds(s, SkipWs(s, i + 1))))]

\* ------------------------------------------------------------- table model
\* q.get(key, default) for the two string fields
GetQuestion(q) == IF "question" \in q.has THEN q.question ELSE ""
GetAnswer(q) == IF "correct_answer" \in q.has THEN q.correct_answer ELSE ""
\* q.get("options", [])
GetOptions(q) == IF "options" \in q.has THEN q.options ELSE <<>>

\* q.get("options", ...)[i] if len(q.get("options", [])) > i else ""
OptionCell(q, i) == IF Len(GetOptions(q)) > i THEN GetOptions(q)[i + 1] ELSE ""

\* one df_data entry: the cells of a row in column order
RowOf(q) ==
    <<GetQuestion(q), OptionCell(q, 0), OptionCell(q, 1), OptionCell(q, 2),
      OptionCell(q, 3), OptionCell(q, 4), OptionCell(q, 5), GetAnswer(q)>>

\* every item of the parsed list supports .get (is a dict)
AllDicts(items) == \A k \in 1..Len(items) : items[k].t = "obj"

df_dataMut(items) == [k \in 1..Len(items) |-> RowOf(items[Len(items) + 1 - k])]
\* the loop that fills df_data
df_data(items) == [k \in 1..Len(items) |-> RowOf(items[k])]

DataFrameMut(rows) ==
    [columns |-> IF rows = <<>> THEN <<>> ELSE SubSeq(ColumnNames, 1, 7),
     rows |-> [k \in 1..Len(rows) |-> SubSeq(rows[k], 1, 7)]]
\* pd.DataFrame(df_data): the columns are the keys of the row dicts
DataFrame(rows) ==
    [columns |-> IF rows = <<>> THEN <<>> ELSE ColumnNames, rows |-> rows]

NoFrame == [columns |-> <<>>, rows |-> <<>>]

\* df.to_excel(..., index=False, sheet_name=...): the bytes of the workbook
to_excel(df) == [sheet |-> "Questions", header |-> df.columns, body |-> df.rows]

NoBytes == [sheet |-> "", header |-> <<>>, body |-> <<>>]

ShowRawMut(last, json_str) == json_str
\* st.text(st.session_state["last_generated"]) in the except branch
ShowRaw(last, json_str) == last

\* ---------------------------------------------------------- transport data
\* chunks a response may be made of: prose, the opening of an array with one
\* object, the closing of an array followed by prose, an empty text, no text
MainPool ==
    {Chunk(<<"x">>), Chunk(<<"[", " ", "{", "q1", ",", "o2", "}">>),
     Chunk(<<" ", "]", "x">>), Chunk(<<>>), NoTextChunk}

\* pieces of well-formed arrays: two objects (the second one empty), an object
\* with seven options and no question, an object with no options, the closing
TablePool ==
    {Chunk(<<"[", "{", "q1", ",", "o2", ",", "c1", "}", ",", "{", "}">>),
     Chunk(<<",", "{", "o7", ",", "c2", "}">>),
     Chunk(<<",", "{", "q2", ",", "o0", "}">>),
     Chunk(<<"]">>)}

\* two complete, different responses
ConcPool ==
    {Chunk(<<"[", "{", "q1", "}", "]">>), Chunk(<<"[", "{", "q2", "}", "]">>)}

\* what the user of the single session may type into the API key field
MainKeys == {"k1"}
\* the same for each of the two concurrent sessions
KeysOf(s) == IF s = 1 THEN {"", "k1"} ELSE {"", "k2"}

\* ------------------------------------------------------------------- state
VARIABLES
    genai,          \* TRUE iff "import google.generativeai" succeeded
    env_key,        \* os.environ["GOOGLE_API_KEY"] ("" when not set)
    xlsx,           \* the file multiple_choice_questions.xlsx
    session_state,  \* st.session_state of each session
    api_key,        \* the sidebar text_input of each session
    num_options,    \* the number_input of each session
    pc,             \* where each session's script run is
    received,       \* the chunks the transport has delivered in this run
    collected,      \* the local list of stream_gemini_text
    yielded,        \* the chunks the generator has yielded in this run
    stream,         \* how the generator ended, and the request it made
    searched,       \* the text handed to re.search in this run
    page            \* what the run has put on the page

vars ==
    <<genai, env_key, xlsx, session_state, api_key, num_options, pc, received,
      collected, yielded, stream, searched, page>>

NoStream == [outcome |-> "none", requested |-> FALSE, key |-> ""]
NotSearched == [done |-> FALSE, text |-> <<>>]
BlankPage ==
    [warning |-> FALSE, error |-> "none", raw_shown |-> FALSE, raw |-> <<>>,
     questions |-> <<>>, df |-> NoFrame, offered |-> FALSE, excel_data |-> NoBytes]

Init ==
    /\ genai \in BOOLEAN
    /\ env_key \in {"", "k0"}
    /\ xlsx = [exists |-> FALSE, data |-> NoBytes]
    /\ session_state =
         [s \in Sessions |->
            [has_last |-> FALSE, last_generated |-> <<>>, problem_text |-> ""]]
    /\ api_key = [s \in Sessions |-> env_key]
    /\ num_options = [s \in Sessions |-> DefaultOptions]
    /\ pc = [s \in Sessions |-> "idle"]
    /\ received = [s \in Sessions |-> <<>>]
    /\ collected = [s \in Sessions |-> <<>>]
    /\ yielded = [s \in Sessions |-> <<>>]
    /\ stream = [s \in Sessions |-> NoStream]
    /\ searched = [s \in Sessions |-> NotSearched]
    /\ page = [s \in Sessions |-> BlankPage]

\* a script run starts from an empty page and fresh locals
FreshRun(s) ==
    /\ received' = [received EXCEPT ![s] = <<>>]
    /\ collected' = [collected EXCEPT ![s] = <<>>]
    /\ yielded' = [yielded EXCEPT ![s] = <<>>]
    /\ stream' = [stream EXCEPT ![s] = NoStream]
    /\ searched' = [searched EXCEPT ![s] = NotSearched]

\* if api_key: os.environ["GOOGLE_API_KEY"] = api_key
ExportKey(field) == env_key' = IF field # "" THEN field ELSE env_key

\* the user edits the API key field: a run with no button pressed
EditKey(s, k) ==
    /\ pc[s] = "idle"
    /\ k # api_key[s]
    /\ api_key' = [api_key EXCEPT ![s] = k]
    /\ ExportKey(k)
    /\ FreshRun(s)
    /\ page' = [page EXCEPT ![s] = BlankPage]
    /\ UNCHANGED <<genai, xlsx, session_state, num_options, pc>>

\* the user edits the problem text area: a run with no button pressed
EditProblem(s, p) ==
    /\ pc[s] = "idle"
    /\ p # session_state[s].problem_text
    /\ session_state' = [session_state EXCEPT ![s].problem_text = p]
    /\ ExportKey(api_key[s])
    /\ FreshRun(s)
    /\ page' = [page EXCEPT ![s] = BlankPage]
    /\ UNCHANGED <<genai, xlsx, api_key, num_options, pc>>

\* the user changes the number of options: a run with no button pressed
SetNumOptions(s, n) ==
    /\ pc[s] = "idle"
    /\ n # num_options[s]
    /\ num_options' = [num_options EXCEPT ![s] = n]
    /\ ExportKey(api_key[s])
    /\ FreshRun(s)
    /\ page' = [page EXCEPT ![s] = BlankPage]
    /\ UNCHANGED <<genai, xlsx, session_state, api_key, pc>>

\* the clear button: a run with clear = True
Clear(s) ==
    /\ pc[s] = "idle"
    /\ session_state' =
         [session_state EXCEPT ![s] =
            [has_last |-> TRUE, last_generated |-> <<>>, problem_text |-> ""]]
    /\ ExportKey(api_key[s])
    /\ FreshRun(s)
    /\ page' = [page EXCEPT ![s] = BlankPage]
    /\ UNCHANGED <<genai, xlsx, api_key, num_options, pc>>

\* the generate button: the run up to the call of st.write_stream
Generate(s) ==
    /\ pc[s] = "idle"
    /\ ExportKey(api_key[s])
    /\ FreshRun(s)
    /\ IF Blank(session_state[s].problem_text)
       THEN /\ page' = [page EXCEPT ![s] = [BlankPage EXCEPT !.warning = TRUE]]
            /\ pc' = pc
       ELSE /\ page' = [page EXCEPT ![s] = BlankPage]
            /\ pc' = [pc EXCEPT ![s] = "gen"]
    /\ UNCHANGED <<genai, xlsx, session_state, api_key, num_options>>

\* the generate button in a session whose accumulator holds no text
GenerateFresh(s) ==
    /\ session_state[s].last_generated = <<>>
    /\ Generate(s)

\* ------------------------------------------------------ stream_gemini_text
StreamStartMut(s) ==
    /\ pc[s] = "gen"
    /\ LET key == ResolveKey(env_key, api_key[s]) IN
       IF ~genai
       THEN /\ yielded' = [yielded EXCEPT ![s] = <<GuardLibMsg>>]
            /\ stream' = [stream EXCEPT ![s].outcome = "guard"]
            /\ pc' = [pc EXCEPT ![s] = "extract"]
       ELSE /\ yielded' = yielded
            /\ stream' =
                 [stream EXCEPT ![s] =
                    [outcome |-> "none", requested |-> TRUE, key |-> key]]
            /\ pc' = [pc EXCEPT ![s] = "iter"]
    /\ UNCHANGED <<genai, env_key, xlsx, session_state, api_key, num_options,
                   received, collected, searched, page>>
\* the generator runs up to its first suspension: the two guards,
\* genai.configure and the generate_content request
StreamStart(s) ==
    /\ pc[s] = "gen"
    /\ LET key == ResolveKey(env_key, api_key[s]) IN
       IF ~genai
       THEN /\ yielded' = [yielded EXCEPT ![s] = <<GuardLibMsg>>]
            /\ stream' = [stream EXCEPT ![s].outcome = "guard"]
            /\ pc' = [pc EXCEPT ![s] = "extract"]
       ELSE IF key = ""
       THEN /\ yielded' = [yielded EXCEPT ![s] = <<GuardKeyMsg>>]
            /\ stream' = [stream EXCEPT ![s].outcome = "guard"]
            /\ pc' = [pc EXCEPT ![s] = "extract"]
       ELSE /\ yielded' = yielded
            /\ stream' =
                 [stream EXCEPT ![s] =
                    [outcome |-> "none", requested |-> TRUE, key |-> key]]
            /\ pc' = [pc EXCEPT ![s] = "iter"]
    /\ UNCHANGED <<genai, env_key, xlsx, session_state, api_key, num_options,
                   received, collected, searched, page>>

\* one turn of "for chunk in response": the transport delivers chunk c
NextChunk(s, c, max) ==
    /\ pc[s] = "iter"
    /\ Len(received[s]) < max
    /\ received' = [received EXCEPT ![s] = Append(@, c)]
    /\ IF TruthyText(c)
       THEN /\ collected' = [collected EXCEPT ![s] = Collect(@, c)]
            /\ yielded' = [yielded EXCEPT ![s] = Append(@, c.text)]
       ELSE UNCHANGED <<collected, yielded>>
    /\ UNCHANGED <<genai, env_key, xlsx, session_state, api_key, num_options,
                   pc, stream, searched, page>>

\* the response is exhausted: the accumulator is stored and the generator ends
StreamEnd(s) ==
    /\ pc[s] = "iter"
    /\ session_state' =
         [session_state EXCEPT ![s].has_last = TRUE,
                               ![s].last_generated = Join(collected[s])]
    /\ stream' = [stream EXCEPT ![s].outcome = "normal"]
    /\ pc' = [pc EXCEPT ![s] = "extract"]
    /\ UNCHANGED <<genai, env_key, xlsx, api_key, num_options, received,
                   collected, yielded, searched, page>>

FaultMut(s) ==
    /\ pc[s] = "iter"
    /\ stream' = [stream EXCEPT ![s].outcome = "fault"]
    /\ pc' = [pc EXCEPT ![s] = "extract"]
    /\ UNCHANGED <<genai, env_key, xlsx, session_state, api_key, num_options,
                   received, collected, yielded, searched, page>>
\* the transport raises in generate_content or in the iteration: the except
\* clause yields the fault description and the generator ends
Fault(s) ==
    /\ pc[s] = "iter"
    /\ yielded' = [yielded EXCEPT ![s] = Append(@, FaultMsg)]
    /\ stream' = [stream EXCEPT ![s].outcome = "fault"]
    /\ pc' = [pc EXCEPT ![s] = "extract"]
    /\ UNCHANGED <<genai, env_key, xlsx, session_state, api_key, num_options,
                   received, collected, searched, page>>

\* -------------------------------------------------------- generation block
\* after st.write_stream returns: the guard on the accumulator, the search,
\* json.loads, the table, the rendering and the write of the Excel file
Extract(s) ==
    /\ pc[s] = "extract"
    /\ LET st == session_state[s]
           m == re_search(st.last_generated)
           r == json_loads(m.group)
           df == DataFrame(df_data(r.val.items))
       IN
       IF ~(st.has_last /\ st.last_generated # <<>>)
       THEN /\ pc' = [pc EXCEPT ![s] = "idle"]
            /\ UNCHANGED <<xlsx, searched, page>>
       ELSE /\ searched' =
                 [searched EXCEPT ![s] = [done |-> TRUE, text |-> st.last_generated]]
            /\ IF ~m.found
               THEN /\ page' = [page EXCEPT ![s].error = "NoJsonFound"]
                    /\ pc' = [pc EXCEPT ![s] = "idle"]
                    /\ xlsx' = xlsx
               ELSE IF ~r.ok \/ r.val.t # "arr" \/ ~AllDicts(r.val.items)
               THEN /\ page' =
                         [page EXCEPT ![s].error = "MalformedJson",
                                      ![s].raw_shown = TRUE,
                                      ![s].raw = ShowRaw(st.last_generated, m.group)]
                    /\ pc' = [pc EXCEPT ![s] = "idle"]
                    /\ xlsx' = xlsx
               ELSE /\ page' =
                         [page EXCEPT ![s].questions = r.val.items, ![s].df = df]
                    /\ xlsx' = [exists |-> TRUE, data |-> to_excel(df)]
                    /\ pc' = [pc EXCEPT ![s] = "readback"]
    /\ UNCHANGED <<genai, env_key, session_state, api_key, num_options,
                   received, collected, yielded, stream>>

\* the file is read back and its bytes are offered by st.download_button
ReadBack(s) ==
    /\ pc[s] = "readback"
    /\ page' = [page EXCEPT ![s].offered = TRUE, ![s].excel_data = xlsx.data]
    /\ pc' = [pc EXCEPT ![s] = "idle"]
    /\ UNCHANGED <<genai, env_key, xlsx, session_state, api_key, num_options,
                   received, collected, yielded, stream, searched>>

\* ---------------------------------------------------------- specifications
\* one session in a process started without GOOGLE_API_KEY; the user leaves
\* the number of options at its default and types the key at most once
InitMain == Init /\ env_key = ""

Next ==
    \E s \in {1} :
        \/ \E k \in MainKeys : EditKey(s, k)
        \/ \E p \in {"", " ", "p"} : EditProblem(s, p)
        \/ Clear(s)
        \/ Generate(s)
        \/ StreamStart(s)
        \/ \E c \in MainPool : NextChunk(s, c, MaxChunks)
        \/ StreamEnd(s)
        \/ Fault(s)
        \/ Extract(s)
        \/ ReadBack(s)

Spec == InitMain /\ [][Next]_vars

\* one session whose user clears before generating again, a transport that
\* does not fault and a model that answers with well-formed arrays
InitTable == Init /\ genai /\ env_key = "k0"

NextTable ==
    \E s \in {1} :
        \/ \E n \in MinOptions..MaxOptions : SetNumOptions(s, n)
        \/ \E p \in {"", "p"} : EditProblem(s, p)
        \/ Clear(s)
        \/ GenerateFresh(s)
        \/ StreamStart(s)
        \/ \E c \in TablePool : NextChunk(s, c, MaxChunks)
        \/ StreamEnd(s)
        \/ Extract(s)
        \/ ReadBack(s)

SpecTable == InitTable /\ [][NextTable]_vars

\* two sessions of one server process, each generating once
InitConc == Init /\ genai /\ env_key = ""

NextConc ==
    \E s \in Sessions :
        \/ \E k \in KeysOf(s) : EditKey(s, k)
        \/ EditProblem(s, "p")
        \/ GenerateFresh(s)
        \/ StreamStart(s)
        \/ \E c \in ConcPool : NextChunk(s, c, ConcMaxChunks)
        \/ StreamEnd(s)
        \/ Extract(s)
        \/ ReadBack(s)

SpecConc == InitConc /\ [][NextConc]_vars

\* ------------------------------------------------------------- properties
\* the texts of the delivered chunks that carry a non-empty text, in order
TextsOf(rs) ==
    LET kept == SelectSeq(rs, LAMBDA c : c.has_text /\ c.text # <<>>)
    IN  [i \in 1..Len(kept) |-> kept[i].text]

\* the generator of session s has ended
StreamOver(s) == pc[s] \in {"extract", "readback", "idle"}

\* the generate action of session s has run to its end
ActionOver(s) == pc[s] = "idle" /\ stream[s].outcome # "none"

\* the table of session s has been built in this run
TableBuilt(s) == pc[s] = "readback" \/ page[s].offered

\* the cell of row k in the column titled name
Cell(df, k, name) ==
    df.rows[k][CHOOSE i \in 1..Len(df.columns) : df.columns[i] = name]

\* C1: after a transport fault the session accumulator holds the concatenation
\* of the text chunks delivered before the fault, and the extraction stage of
\* the same action is handed that text.
C1_FaultKeepsPartialText ==
    \A s \in Sessions :
        (stream[s].outcome = "fault" /\ TextsOf(received[s]) # <<>>) =>
            /\ session_state[s].has_last
            /\ session_state[s].last_generated = Join(TextsOf(received[s]))
            /\ searched[s].done => searched[s].text = Join(TextsOf(received[s]))

\* C2: when the transport faults, the generator has produced the non-empty
\* texts received before the fault, in arrival order, then exactly one chunk
\* describing the fault, and it has ended with the script run going on.
C2_FaultSequence ==
    \A s \in Sessions :
        stream[s].outcome = "fault" =>
            /\ yielded[s] = TextsOf(received[s]) \o <<FaultMsg>>
            /\ StreamOver(s)

C2_Witness ==
    \E s \in Sessions :
        /\ stream[s].outcome = "fault"
        /\ Len(yielded[s]) = 3
        /\ Len(received[s]) = 3
        /\ pc[s] = "idle"

\* C3: when the stream is exhausted without a fault, the generator has
\* yielded exactly the non-empty texts received, in arrival order, and the
\* session accumulator is their concatenation.
C3_NormalExhaustion ==
    \A s \in Sessions :
        stream[s].outcome = "normal" =>
            /\ yielded[s] = TextsOf(received[s])
            /\ session_state[s].has_last
            /\ session_state[s].last_generated = Join(yielded[s])

C3_Witness ==
    \E s \in Sessions :
        /\ stream[s].outcome = "normal"
        /\ Len(yielded[s]) = 2
        /\ yielded[s][1] # yielded[s][2]
        /\ Len(received[s]) = 3

\* C4 as claimed: the table has len(problems) rows and 2 + num_options columns.
C4_ColumnsFollowNumOptions ==
    \A s \in Sessions :
        TableBuilt(s) =>
            /\ Len(page[s].df.rows) = Len(page[s].questions)
            /\ Len(page[s].df.columns) = 2 + num_options[s]

\* C4 as amended: the table has len(problems) rows and 2 + 6 columns whatever
\* num_options is: the question, the six option columns A to F and the
\* correct answer, and every row has a cell for each of them.
C4_EightColumns ==
    \A s \in Sessions :
        TableBuilt(s) =>
            /\ Len(page[s].df.rows) = Len(page[s].questions)
            /\ Len(page[s].df.columns) = 2 + MaxOptions
            /\ page[s].df.columns = ColumnNames
            /\ \A k \in 1..Len(page[s].df.rows) :
                   Len(page[s].df.rows[k]) = 2 + MaxOptions

C4_Witness ==
    \E s \in Sessions :
        /\ TableBuilt(s)
        /\ num_options[s] = 3
        /\ Len(page[s].df.rows) = 3

\* C5: when the accumulated text of a fault-free generate action contains no
\* bracketed array of objects (the empty text included), the action ends with
\* NoJsonFound reported and with no problems, no table and no download.
C5_NoJsonReported ==
    \A s \in Sessions :
        ( /\ ActionOver(s)
          /\ stream[s].outcome = "normal"
          /\ ~re_search(Join(TextsOf(received[s]))).found ) =>
            /\ page[s].error = "NoJsonFound"
            /\ page[s].questions = <<>>
            /\ page[s].df = NoFrame
            /\ ~page[s].offered

\* C6: when the text handed to the extraction stage contains a bracketed
\* array-of-objects span that json.loads rejects, the action ends with no
\* problems rendered, no table, no download, MalformedJson reported and the
\* whole accumulated text displayed unchanged.
C6_MalformedJson ==
    \A s \in Sessions :
        ( /\ ActionOver(s)
          /\ session_state[s].has_last
          /\ re_search(session_state[s].last_generated).found
          /\ ~json_loads(re_search(session_state[s].last_generated).group).ok ) =>
            /\ page[s].questions = <<>>
            /\ page[s].df = NoFrame
            /\ ~page[s].offered
            /\ page[s].error = "MalformedJson"
            /\ page[s].raw_shown
            /\ page[s].raw = session_state[s].last_generated

C6_Witness ==
    \E s \in Sessions :
        /\ ActionOver(s)
        /\ stream[s].outcome = "normal"
        /\ page[s].error = "MalformedJson"
        /\ page[s].raw = Join(TextsOf(received[s]))
        /\ re_search(page[s].raw).found
        /\ re_search(page[s].raw).group # page[s].raw

\* C7: with no ambient key, the credential a session sends is one its own
\* user typed, and the bytes it offers for download are the serialisation of
\* its own table.
C7_SessionsIsolated ==
    \A s \in Sessions :
        /\ stream[s].requested => stream[s].key \in KeysOf(s)
        /\ page[s].offered => page[s].excel_data = to_excel(page[s].df)

\* C8: a generator started with the client library missing, or with no key
\* in the environment and none in the sidebar field, yields exactly one
\* explanatory chunk and ends, sends no request and leaves the session state
\* as it was.
C8_GuardsYieldOnce ==
    [][\A s \in Sessions :
          ( /\ pc[s] = "gen"
            /\ pc'[s] # "gen"
            /\ ~genai \/ (env_key = "" /\ api_key[s] = "") ) =>
              /\ Len(yielded'[s]) = 1
              /\ yielded'[s][1] \in {GuardLibMsg, GuardKeyMsg}
              /\ pc'[s] = "extract"
              /\ stream'[s].outcome = "guard"
              /\ ~stream'[s].requested
              /\ received'[s] = <<>>
              /\ session_state'[s] = session_state[s]]_vars

C8_Witness ==
    \E s \in Sessions :
        /\ genai
        /\ stream[s].outcome = "guard"
        /\ yielded[s] = <<GuardKeyMsg>>
        /\ ~stream[s].requested
        /\ pc[s] = "idle"

\* C9: the rows of the table are the parsed problems in input order; row k
\* holds problem k's question ("" if missing), in option slot i below
\* num_options its options[i] when that index exists and "" otherwise, and
\* its correct_answer ("" if missing).
C9_RowsFollowProblems ==
    \A s \in Sessions :
        TableBuilt(s) =>
            LET df == page[s].df
                qs == page[s].questions
            IN  /\ Len(df.rows) = Len(qs)
                /\ \A k \in 1..Len(qs) :
                     LET opts == IF "options" \in qs[k].has THEN qs[k].options ELSE <<>>
                     IN  /\ Cell(df, k, "Question") =
                              (IF "question" \in qs[k].has THEN qs[k].question ELSE "")
                         /\ Cell(df, k, "Correct Answer") =
                              (IF "correct_answer" \in qs[k].has
                               THEN qs[k].correct_answer ELSE "")
                         /\ \A i \in 0..(num_options[s] - 1) :
                              Cell(df, k, ColumnNames[2 + i]) =
                                  (IF i < Len(opts) THEN opts[i + 1] ELSE "")

C9_Witness ==
    \E s \in Sessions :
        /\ TableBuilt(s)
        /\ num_options[s] = 4
        /\ Len(page[s].df.rows) = 3
        /\ page[s].df.rows[1] = <<"Q1", "A", "B", "", "", "", "", "A">>
        /\ page[s].df.rows[3] = <<"", "A", "B", "C", "D", "E", "F", "B">>

\* C10: the text a generate action hands to the extraction stage is the
\* accumulated text of that action's own stream, and an action whose
\* generator ended in a guard message hands it nothing.
C10_OwnTextParsed ==
    \A s \in Sessions :
        searched[s].done =>
            /\ stream[s].outcome \in {"normal", "fault"}
            /\ searched[s].text = Join(TextsOf(received[s]))
====
